---- MODULE Spec2Model ----
(***************************************************************************)
(* The ledger of mamarBank: the request handlers of transactions/views.py  *)
(* acting on the stored account balances and the Transaction table.        *)
(* Each handler runs to completion as one action.  Amounts are whole       *)
(* currency units.  The outcome of the notification sender                 *)
(* (send_transaction_email: delivered, or an exception) is an input of     *)
(* each request that reaches it.                                           *)
(***************************************************************************)
EXTENDS Integers, Sequences, FiniteSets

VARIABLES
    balance,    \* Account.balance as stored, per user (request.user.account)
    txns,       \* the Transaction table; a record's id is its index
    last,       \* the last request handled: its inputs, its result, the state before it
    requests,   \* the number of requests handled so far
    inflight,   \* the requests being served concurrently, each with the objects it loaded
    today,      \* the date of the server's clock
    stamps,     \* Transaction.timestamp as a date, per record id (ReportSpec)
    report      \* what the last transaction report request carried and displayed

vars == <<balance, txns, last, requests, inflight, today, stamps, report>>

----------------------------------------------------------------------------
(* Bounds of the model *)

MaxAmount == 2      \* the amounts a request may carry
MaxOpening == 2     \* the balance an account may hold before the first request
MaxRequests == 2    \* Spec: the number of requests handled
MaxLoans == 4       \* LoanSpec: the number of records in the table

----------------------------------------------------------------------------
(* Users, usernames and amounts *)

Users == {"alice", "bob"}
Usernames == Users \cup {"nobody"}
Amounts == -1..MaxAmount

(* transactions/constants.py, imported at views.py:7 *)
DEPOSIT == 1
WITHDRAWAL == 2
LOAN == 3
LOAN_PAID == 4
TRANSFER == 5
RECEIVE_MONEY == 6

Transaction(account, transaction_type, amount, balance_after_transaction, loan_approve) ==
    [account |-> account,
     transaction_type |-> transaction_type,
     amount |-> amount,
     balance_after_transaction |-> balance_after_transaction,
     loan_approve |-> loan_approve]

(* form.is_valid(): the upstream validation of the amount *)
is_valid(amount) == amount > 0

(* TransactionForm.save(), reached through super().form_valid(form): the   *)
(* record of the request's account, stamped with the account's balance.    *)
form_save(account, transaction_type, amount, account_balance) ==
    Transaction(account, transaction_type, amount, account_balance, FALSE)

Request(op, user, arg, amount, result) ==
    [op |-> op, user |-> user, arg |-> arg, amount |-> amount, result |-> result,
     balance |-> balance, txns |-> txns]

----------------------------------------------------------------------------
(* Accounts exist with a non-negative opening balance; no request has been *)
(* handled and the Transaction table is empty.                             *)
Threads == {1, 2}

(* A server thread serving no request *)
Idle ==
    [op |-> "none", user |-> "none", arg |-> "none", amount |-> 0, pc |-> "idle",
     loaded |-> 0, sender_balance |-> 0, recipient_balance |-> 0,
     debited |-> FALSE, replaced |-> 0, result |-> "none"]

(* An absent or empty start_date / end_date parameter *)
NoDate == 0

(* No report displayed yet *)
NoReport ==
    [start_date_str |-> NoDate, end_date_str |-> NoDate, object_list |-> {}, balance |-> 0]

Init ==
    /\ balance \in [Users -> 0..MaxOpening]
    /\ txns = <<>>
    /\ last = [op |-> "none", user |-> "none", arg |-> "none", amount |-> 0,
               result |-> "none", balance |-> balance, txns |-> <<>>]
    /\ requests = 0
    /\ inflight = [t \in Threads |-> Idle]
    /\ today = 1
    /\ stamps = <<>>
    /\ report = NoReport

----------------------------------------------------------------------------
(* DepositMoneyView.form_valid *)

DepositBalance_Debit(account_balance, amount) == account_balance - amount

DepositBalance(account_balance, amount) == account_balance + amount

DepositMoneyView(user, amount, mail_ok) ==
    IF ~is_valid(amount)
    THEN /\ last' = Request("deposit", user, "none", amount, "invalid")
         /\ UNCHANGED <<balance, txns>>
    ELSE LET new_balance == DepositBalance(balance[user], amount) IN
         /\ balance' = [balance EXCEPT ![user] = new_balance]
         /\ IF mail_ok
            THEN /\ txns' = Append(txns, form_save(user, DEPOSIT, amount, new_balance))
                 /\ last' = Request("deposit", user, "none", amount, "ok")
            ELSE /\ txns' = txns
                 /\ last' = Request("deposit", user, "none", amount, "mail_error")

----------------------------------------------------------------------------
(* WithdrawMoneyView.form_valid *)

WithdrawBalance_Credit(account_balance, amount) == account_balance + amount

WithdrawBalance(account_balance, amount) == account_balance - amount

WithdrawMoneyView(user, amount, mail_ok) ==
    IF ~is_valid(amount)
    THEN /\ last' = Request("withdraw", user, "none", amount, "invalid")
         /\ UNCHANGED <<balance, txns>>
    ELSE LET new_balance == WithdrawBalance(balance[user], amount) IN
         /\ balance' = [balance EXCEPT ![user] = new_balance]
         /\ IF mail_ok
            THEN /\ txns' = Append(txns, form_save(user, WITHDRAWAL, amount, new_balance))
                 /\ last' = Request("withdraw", user, "none", amount, "ok")
            ELSE /\ txns' = txns
                 /\ last' = Request("withdraw", user, "none", amount, "mail_error")

----------------------------------------------------------------------------
(* LoanRequestView.form_valid *)

current_loan_count(account) ==
    Cardinality({i \in DOMAIN txns :
                    /\ txns[i].account = account
                    /\ txns[i].transaction_type = 3
                    /\ txns[i].loan_approve})

LoanLimitCrossed_Off(count) == count > 3

LoanLimitCrossed(count) == count >= 3

(* The rejection `return HttpResponse(...)` names HttpResponse, which the  *)
(* module never imports: the handler ends in a NameError.                  *)
LoanRequestView(user, amount, mail_ok) ==
    IF ~is_valid(amount)
    THEN /\ last' = Request("loan", user, "none", amount, "invalid")
         /\ UNCHANGED <<balance, txns>>
    ELSE IF LoanLimitCrossed(current_loan_count(user))
    THEN /\ last' = Request("loan", user, "none", amount, "name_error")
         /\ UNCHANGED <<balance, txns>>
    ELSE /\ balance' = balance
         /\ IF mail_ok
            THEN /\ txns' = Append(txns, form_save(user, LOAN, amount, balance[user]))
                 /\ last' = Request("loan", user, "none", amount, "ok")
            ELSE /\ txns' = txns
                 /\ last' = Request("loan", user, "none", amount, "mail_error")

----------------------------------------------------------------------------
(* Approval of a requested loan (REQUESTED -> APPROVED), done outside the  *)
(* views: the record's loan_approve flag is set.                           *)

ApproveLoan(loan_id) ==
    /\ loan_id \in DOMAIN txns
    /\ txns[loan_id].transaction_type = LOAN
    /\ ~txns[loan_id].loan_approve
    /\ txns' = [txns EXCEPT ![loan_id].loan_approve = TRUE]
    /\ balance' = balance
    /\ last' = Request("approve", "none", loan_id, 0, "ok")

----------------------------------------------------------------------------
(* PayLoanView.get *)

CanPayLoan_Inclusive(loan_amount, account_balance) == loan_amount <= account_balance
CanPayLoan(loan_amount, account_balance) == loan_amount < account_balance

(* The handler without `if loan.loan_approve` (line 133) *)
PayLoanView_NoApproval(user, loan_id) ==
    IF loan_id \notin DOMAIN txns
    THEN /\ last' = Request("payloan", user, loan_id, 0, "not_found")
         /\ UNCHANGED <<balance, txns>>
    ELSE LET loan == txns[loan_id]
             user_account == loan.account
             new_balance == balance[user_account] - loan.amount
         IN IF CanPayLoan(loan.amount, balance[user_account])
            THEN /\ balance' = [balance EXCEPT ![user_account] = new_balance]
                 /\ txns' = [txns EXCEPT ![loan_id] =
                                [@ EXCEPT !.balance_after_transaction = new_balance,
                                          !.loan_approve = TRUE,
                                          !.transaction_type = LOAN_PAID]]
                 /\ last' = Request("payloan", user, loan_id, loan.amount, "ok")
            ELSE /\ last' = Request("payloan", user, loan_id, loan.amount, "insufficient")
                 /\ UNCHANGED <<balance, txns>>

PayLoanView(user, loan_id) ==
    IF loan_id \notin DOMAIN txns
    THEN /\ last' = Request("payloan", user, loan_id, 0, "not_found")
         /\ UNCHANGED <<balance, txns>>
    ELSE LET loan == txns[loan_id]
             user_account == loan.account
             new_balance == balance[user_account] - loan.amount
         IN IF ~loan.loan_approve
            THEN /\ last' = Request("payloan", user, loan_id, loan.amount, "not_approved")
                 /\ UNCHANGED <<balance, txns>>
            ELSE IF CanPayLoan(loan.amount, balance[user_account])
            THEN /\ balance' = [balance EXCEPT ![user_account] = new_balance]
                 /\ txns' = [txns EXCEPT ![loan_id] =
                                [@ EXCEPT !.balance_after_transaction = new_balance,
                                          !.loan_approve = TRUE,
                                          !.transaction_type = LOAN_PAID]]
                 /\ last' = Request("payloan", user, loan_id, loan.amount, "ok")
            ELSE /\ last' = Request("payloan", user, loan_id, loan.amount, "insufficient")
                 /\ UNCHANGED <<balance, txns>>

----------------------------------------------------------------------------
(* TransferMoneyView.post *)

NoUser == "DoesNotExist"

User_objects_get_Any(username) ==
    IF username \in Users THEN username ELSE CHOOSE u \in Users : TRUE

(* User.objects.get(username=...): the user, or User.DoesNotExist *)
User_objects_get(username) ==
    IF username \in Users THEN username ELSE NoUser

InsufficientBalance_Strict(sender_balance, amount) == sender_balance <= amount

InsufficientBalance(sender_balance, amount) == sender_balance < amount

(* The handler without `if form.is_valid()` (line 168) *)
TransferMoneyView_NoValidation(user, recipient_username, amount, mail1_ok, mail2_ok) ==
    LET recipient_user == User_objects_get(recipient_username) IN
    IF recipient_user = NoUser
    THEN /\ last' = Request("transfer", user, recipient_username, amount, "no_recipient")
         /\ UNCHANGED <<balance, txns>>
    ELSE IF InsufficientBalance(balance[user], amount)
    THEN /\ last' = Request("transfer", user, recipient_username, amount, "insufficient")
         /\ UNCHANGED <<balance, txns>>
    ELSE LET sender_balance == balance[user] - amount
             sender_saved == [balance EXCEPT ![user] = sender_balance]
             recipient_balance == balance[recipient_user] + amount
             recipient_saved == [sender_saved EXCEPT ![recipient_user] = recipient_balance]
         IN /\ balance' = recipient_saved
            /\ txns' = txns \o
                 << Transaction(user, TRANSFER, amount, sender_balance, FALSE),
                    Transaction(recipient_user, RECEIVE_MONEY, amount,
                                recipient_balance, FALSE) >>
            /\ last' = Request("transfer", user, recipient_username, amount, "ok")

(* recipient_account (line 173) and sender_account (line 177) are two      *)
(* objects, each loaded with the stored balance before either is saved.    *)
TransferMoneyView(user, recipient_username, amount, mail1_ok, mail2_ok) ==
    LET recipient_user == User_objects_get(recipient_username) IN
    IF ~is_valid(amount)
    THEN /\ last' = Request("transfer", user, recipient_username, amount, "invalid")
         /\ UNCHANGED <<balance, txns>>
    ELSE IF recipient_user = NoUser
    THEN /\ last' = Request("transfer", user, recipient_username, amount, "no_recipient")
         /\ UNCHANGED <<balance, txns>>
    ELSE IF InsufficientBalance(balance[user], amount)
    THEN /\ last' = Request("transfer", user, recipient_username, amount, "insufficient")
         /\ UNCHANGED <<balance, txns>>
    ELSE LET sender_balance == balance[user] - amount
             sender_saved == [balance EXCEPT ![user] = sender_balance]
             recipient_balance == balance[recipient_user] + amount
             recipient_saved == [sender_saved EXCEPT ![recipient_user] = recipient_balance]
         IN IF ~mail1_ok
            THEN /\ balance' = sender_saved
                 /\ txns' = txns
                 /\ last' = Request("transfer", user, recipient_username, amount,
                                    "mail_error")
            ELSE IF ~mail2_ok
            THEN /\ balance' = recipient_saved
                 /\ txns' = txns
                 /\ last' = Request("transfer", user, recipient_username, amount,
                                    "mail_error2")
            ELSE /\ balance' = recipient_saved
                 /\ txns' = txns \o
                      << Transaction(user, TRANSFER, amount, sender_balance, FALSE),
                         Transaction(recipient_user, RECEIVE_MONEY, amount,
                                     recipient_balance, FALSE) >>
                 /\ last' = Request("transfer", user, recipient_username, amount, "ok")

----------------------------------------------------------------------------
(* The ids a request may name: those of the table and one that is unknown *)
LoanIds == 1..(Len(txns) + 1)

(* Spec: any MaxRequests requests of any users *)
Handle(request) ==
    /\ requests < MaxRequests
    /\ request
    /\ requests' = requests + 1
    /\ UNCHANGED <<inflight, today, stamps, report>>

Next ==
    \/ \E user \in Users, amount \in Amounts, mail_ok \in BOOLEAN :
          Handle(DepositMoneyView(user, amount, mail_ok))
    \/ \E user \in Users, amount \in Amounts, mail_ok \in BOOLEAN :
          Handle(WithdrawMoneyView(user, amount, mail_ok))
    \/ \E user \in Users, amount \in Amounts, mail_ok \in BOOLEAN :
          Handle(LoanRequestView(user, amount, mail_ok))
    \/ \E loan_id \in LoanIds : Handle(ApproveLoan(loan_id))
    \/ \E user \in Users, loan_id \in LoanIds : Handle(PayLoanView(user, loan_id))
    \/ \E user \in Users, recipient_username \in Usernames, amount \in Amounts,
          mail1_ok \in BOOLEAN, mail2_ok \in BOOLEAN :
          Handle(TransferMoneyView(user, recipient_username, amount, mail1_ok, mail2_ok))

Spec == Init /\ [][Next]_vars

----------------------------------------------------------------------------
(* LoanSpec: the loan flow alone (request, approval, payment), any number  *)
(* of requests, on a table of at most MaxLoans records.  alice's account   *)
(* holds MaxFunds, bob's is empty; every loan is of one currency unit.     *)

MaxFunds == 3

LoanAmounts == {1}

LoanInit ==
    /\ balance = [u \in Users |-> IF u = "alice" THEN MaxFunds ELSE 0]
    /\ txns = <<>>
    /\ last = [op |-> "none", user |-> "none", arg |-> "none", amount |-> 0,
               result |-> "none", balance |-> balance, txns |-> <<>>]
    /\ requests = 0
    /\ inflight = [t \in Threads |-> Idle]
    /\ today = 1
    /\ stamps = <<>>
    /\ report = NoReport

HandleLoan(request) ==
    /\ request
    /\ Len(txns') <= MaxLoans
    /\ UNCHANGED <<requests, inflight, today, stamps, report>>

LoanNext ==
    \/ \E user \in Users, amount \in LoanAmounts, mail_ok \in BOOLEAN :
          HandleLoan(LoanRequestView(user, amount, mail_ok))
    \/ \E loan_id \in LoanIds : HandleLoan(ApproveLoan(loan_id))
    \/ \E user \in Users, loan_id \in LoanIds : HandleLoan(PayLoanView(user, loan_id))

LoanSpec == LoanInit /\ [][LoanNext]_vars

----------------------------------------------------------------------------
(* Two requests served at once.  Django serves each request in its own     *)
(* thread or process, the views take no lock, open no transaction and use  *)
(* no select_for_update or F() expression, so the database reads and       *)
(* writes of two handlers interleave freely.  Each step below is one       *)
(* database access of a handler with the local computation around it.      *)

Thread(t) == inflight[t]

Step(t, fields) == inflight' = [inflight EXCEPT ![t] = fields]

Finish(t, result) ==
    /\ Step(t, [Thread(t) EXCEPT !.pc = "done", !.result = result])
    /\ UNCHANGED <<balance, txns>>

(* TransactionCreateMixin.get_form_kwargs: request.user.account is loaded *)
(* (and cached on request.user) when the form is built.                   *)
Withdraw_get_form_kwargs(t, user, amount) ==
    /\ Thread(t).pc = "idle"
    /\ Step(t, [Idle EXCEPT !.op = "withdraw", !.user = user, !.amount = amount,
                            !.loaded = balance[user],
                            !.sender_balance = balance[user], !.pc = "loaded"])
    /\ UNCHANGED <<balance, txns>>

(* The save of line 76 made on the stored row instead of the loaded object *)
Withdraw_form_valid_OnStoredRow(t) ==
    /\ Thread(t).op = "withdraw"
    /\ Thread(t).pc = "loaded"
    /\ IF ~is_valid(Thread(t).amount)
       THEN Finish(t, "invalid")
       ELSE LET new_balance == WithdrawBalance(balance[Thread(t).user], Thread(t).amount) IN
            /\ balance' = [balance EXCEPT ![Thread(t).user] = new_balance]
            /\ Step(t, [Thread(t) EXCEPT !.sender_balance = new_balance,
                                         !.debited = TRUE,
                                         !.replaced = balance[Thread(t).user],
                                         !.pc = "saved"])
            /\ txns' = txns

(* WithdrawMoneyView.form_valid, lines 73-76: the loaded object is debited *)
(* and its balance written over the stored one.                            *)
Withdraw_form_valid(t) ==
    /\ Thread(t).op = "withdraw"
    /\ Thread(t).pc = "loaded"
    /\ IF ~is_valid(Thread(t).amount)
       THEN Finish(t, "invalid")
       ELSE LET new_balance == WithdrawBalance(Thread(t).sender_balance, Thread(t).amount) IN
            /\ balance' = [balance EXCEPT ![Thread(t).user] = new_balance]
            /\ Step(t, [Thread(t) EXCEPT !.sender_balance = new_balance,
                                         !.debited = TRUE,
                                         !.replaced = balance[Thread(t).user],
                                         !.pc = "saved"])
            /\ txns' = txns

(* WithdrawMoneyView.form_valid, lines 77-79: mail, then the record *)
Withdraw_super_form_valid(t, mail_ok) ==
    /\ Thread(t).op = "withdraw"
    /\ Thread(t).pc = "saved"
    /\ IF mail_ok
       THEN /\ txns' = Append(txns, form_save(Thread(t).user, WITHDRAWAL, Thread(t).amount,
                                              Thread(t).sender_balance))
            /\ balance' = balance
            /\ Step(t, [Thread(t) EXCEPT !.pc = "done", !.result = "ok"])
       ELSE Finish(t, "mail_error")

(* TransferMoneyView.post, lines 167-176: validation, recipient lookup and *)
(* the load of the recipient's account.                                    *)
Transfer_post_recipient(t, user, recipient_username, amount) ==
    LET recipient_user == User_objects_get(recipient_username)
        request == [Idle EXCEPT !.op = "transfer", !.user = user,
                                !.arg = recipient_username, !.amount = amount]
    IN
    /\ Thread(t).pc = "idle"
    /\ UNCHANGED <<balance, txns>>
    /\ IF ~is_valid(amount)
       THEN Step(t, [request EXCEPT !.pc = "done", !.result = "invalid"])
       ELSE IF recipient_user = NoUser
       THEN Step(t, [request EXCEPT !.pc = "done", !.result = "no_recipient"])
       ELSE Step(t, [request EXCEPT !.recipient_balance = balance[recipient_user],
                                    !.pc = "recipient_loaded"])

(* TransferMoneyView.post, lines 177-180: the load of the sender's account *)
(* and the balance check on the loaded object.                             *)
Transfer_post_sender(t) ==
    /\ Thread(t).op = "transfer"
    /\ Thread(t).pc = "recipient_loaded"
    /\ IF InsufficientBalance(balance[Thread(t).user], Thread(t).amount)
       THEN Finish(t, "insufficient")
       ELSE /\ Step(t, [Thread(t) EXCEPT !.loaded = balance[Thread(t).user],
                                         !.sender_balance = balance[Thread(t).user],
                                         !.pc = "checked"])
            /\ UNCHANGED <<balance, txns>>

(* TransferMoneyView.post, lines 182-183 *)
Transfer_post_debit(t) ==
    /\ Thread(t).op = "transfer"
    /\ Thread(t).pc = "checked"
    /\ LET new_balance == Thread(t).sender_balance - Thread(t).amount IN
       /\ balance' = [balance EXCEPT ![Thread(t).user] = new_balance]
       /\ Step(t, [Thread(t) EXCEPT !.sender_balance = new_balance,
                                    !.debited = TRUE,
                                    !.replaced = balance[Thread(t).user],
                                    !.pc = "debited"])
       /\ txns' = txns

(* TransferMoneyView.post, lines 184-186 *)
Transfer_post_credit(t, mail1_ok) ==
    /\ Thread(t).op = "transfer"
    /\ Thread(t).pc = "debited"
    /\ IF ~mail1_ok
       THEN Finish(t, "mail_error")
       ELSE LET new_balance == Thread(t).recipient_balance + Thread(t).amount IN
            /\ balance' = [balance EXCEPT ![User_objects_get(Thread(t).arg)] = new_balance]
            /\ Step(t, [Thread(t) EXCEPT !.recipient_balance = new_balance,
                                         !.pc = "credited"])
            /\ txns' = txns

(* TransferMoneyView.post, lines 187-202 *)
Transfer_post_records(t, mail2_ok) ==
    /\ Thread(t).op = "transfer"
    /\ Thread(t).pc = "credited"
    /\ IF ~mail2_ok
       THEN Finish(t, "mail_error2")
       ELSE /\ txns' = txns \o
                 << Transaction(Thread(t).user, TRANSFER, Thread(t).amount,
                                Thread(t).sender_balance, FALSE),
                    Transaction(User_objects_get(Thread(t).arg), RECEIVE_MONEY,
                                Thread(t).amount, Thread(t).recipient_balance, FALSE) >>
            /\ balance' = balance
            /\ Step(t, [Thread(t) EXCEPT !.pc = "done", !.result = "ok"])

RaceInit == Init

Serve(step) ==
    /\ step
    /\ UNCHANGED <<last, requests, today, stamps, report>>

RaceNext ==
    \/ \E t \in Threads, user \in Users, amount \in Amounts :
          Serve(Withdraw_get_form_kwargs(t, user, amount))
    \/ \E t \in Threads : Serve(Withdraw_form_valid(t))
    \/ \E t \in Threads, mail_ok \in BOOLEAN : Serve(Withdraw_super_form_valid(t, mail_ok))
    \/ \E t \in Threads, user \in Users, recipient_username \in Usernames, amount \in Amounts :
          Serve(Transfer_post_recipient(t, user, recipient_username, amount))
    \/ \E t \in Threads : Serve(Transfer_post_sender(t))
    \/ \E t \in Threads : Serve(Transfer_post_debit(t))
    \/ \E t \in Threads, mail1_ok \in BOOLEAN : Serve(Transfer_post_credit(t, mail1_ok))
    \/ \E t \in Threads, mail2_ok \in BOOLEAN : Serve(Transfer_post_records(t, mail2_ok))

RaceSpec == RaceInit /\ [][RaceNext]_vars

-----------------------------------------------------------------------------
(* The transaction report.  Dates are day numbers; a date parameter is a   *)
(* day written as %Y-%m-%d, absent, or a string that is no such date.      *)

MaxDay == 2         \* ReportSpec: the days the clock runs through

Days == 1..MaxDay
Malformed == -1
DateStrings == Days \cup {NoDate, Malformed}

(* datetime.strptime(s, '%Y-%m-%d') raises ValueError on a string that is *)
(* no date in that format                                                 *)
strptime_raises(date_str) == date_str \notin Days

(* TransactionReportView.get_queryset, as called by ListView.get *)
TransactionReportView(user, start_date_str, end_date_str) ==
    LET queryset == {i \in DOMAIN txns : txns[i].account = user}
        asked == [NoReport EXCEPT !.start_date_str = start_date_str,
                                  !.end_date_str = end_date_str]
    IN
    /\ UNCHANGED <<balance, txns>>
    /\ IF start_date_str # NoDate /\ end_date_str # NoDate
       THEN /\ report' = asked
            /\ IF strptime_raises(start_date_str) \/ strptime_raises(end_date_str)
               THEN last' = Request("report", user, "none", 0, "value_error")
               ELSE \* line 114: a datetime has no attribute `dend`
                    last' = Request("report", user, "none", 0, "attribute_error")
       ELSE /\ report' = [asked EXCEPT !.object_list = queryset,
                                       !.balance = balance[user]]
            /\ last' = Request("report", user, "none", 0, "ok")

(* The clock passes midnight *)
Tick ==
    /\ today < MaxDay
    /\ today' = today + 1
    /\ UNCHANGED <<balance, txns, last, requests, inflight, stamps, report>>

(* A request that changes the ledger: each record it creates is stamped    *)
(* with the clock's date (timestamp = timezone.now(), lines 192 and 199).  *)
HandleStamped(request) ==
    /\ requests < MaxRequests
    /\ request
    /\ requests' = requests + 1
    /\ stamps' = stamps \o [i \in 1..(Len(txns') - Len(txns)) |-> today]
    /\ UNCHANGED <<inflight, today, report>>

HandleReport(request) ==
    /\ request
    /\ UNCHANGED <<requests, inflight, today, stamps>>

ReportInit ==
    /\ balance = [u \in Users |-> MaxOpening]
    /\ txns = <<>>
    /\ last = [op |-> "none", user |-> "none", arg |-> "none", amount |-> 0,
               result |-> "none", balance |-> balance, txns |-> <<>>]
    /\ requests = 0
    /\ inflight = [t \in Threads |-> Idle]
    /\ today = 1
    /\ stamps = <<>>
    /\ report = NoReport

ReportNext ==
    \/ \E user \in Users, amount \in Amounts, mail_ok \in BOOLEAN :
          HandleStamped(DepositMoneyView(user, amount, mail_ok))
    \/ \E user \in Users, recipient_username \in Usernames, amount \in Amounts,
          mail1_ok, mail2_ok \in BOOLEAN :
          HandleStamped(TransferMoneyView(user, recipient_username, amount, mail1_ok, mail2_ok))
    \/ Tick
    \/ \E user \in Users, start_date_str \in DateStrings, end_date_str \in DateStrings :
          HandleReport(TransactionReportView(user, start_date_str, end_date_str))

ReportSpec == ReportInit /\ [][ReportNext]_vars

-----------------------------------------------------------------------------
(* What the claims speak of: the request just handled, the state before it *)
(* (last.balance, last.txns) and the state after it (balance, txns).       *)

Sender == last.user
Amount == last.amount
BalanceBefore(u) == last.balance[u]
Created == Len(txns) - Len(last.txns)
OldRecordsKept == SubSeq(txns, 1, Len(last.txns)) = last.txns
NothingChanged == balance = last.balance /\ txns = last.txns
OthersUnchanged(accounts) == \A u \in Users \ accounts : balance[u] = last.balance[u]

(* The k-th record created by the last request is one of `account`, of the *)
(* given type and amount, stamped with the account's balance as it is now. *)
CreatedRecord(k, account, transaction_type) ==
    LET r == txns[Len(last.txns) + k] IN
    /\ r.account = account
    /\ r.transaction_type = transaction_type
    /\ r.amount = Amount
    /\ r.balance_after_transaction = balance[account]

(* C1: a transfer that completes has debited the sender by the amount,     *)
(* credited the recipient by the amount and created exactly two records, a *)
(* TRANSFER on the sender and a RECEIVE_MONEY on the recipient, each of    *)
(* the amount and stamped with its account's balance after the transfer.   *)
C1_TransferAtomic ==
    (last.op = "transfer" /\ last.result = "ok") =>
        /\ balance[Sender] = BalanceBefore(Sender) - Amount
        /\ balance[last.arg] = BalanceBefore(last.arg) + Amount
        /\ Created = 2
        /\ OldRecordsKept
        /\ CreatedRecord(1, Sender, TRANSFER)
        /\ CreatedRecord(2, last.arg, RECEIVE_MONEY)

(* The same between two different accounts, which the handler does keep.   *)
TransferBetweenAccounts ==
    (last.op = "transfer" /\ last.result = "ok" /\ last.arg # Sender) =>
        /\ balance[Sender] = BalanceBefore(Sender) - Amount
        /\ balance[last.arg] = BalanceBefore(last.arg) + Amount
        /\ OthersUnchanged({Sender, last.arg})
        /\ Created = 2
        /\ OldRecordsKept
        /\ CreatedRecord(1, Sender, TRANSFER)
        /\ CreatedRecord(2, last.arg, RECEIVE_MONEY)

(* C2: a withdrawal of more than the balance is refused as insufficient    *)
(* funds, leaves the balance unchanged and creates no record.              *)
C2_WithdrawInsufficient ==
    (last.op = "withdraw" /\ Amount > 0 /\ Amount > BalanceBefore(Sender)) =>
        /\ last.result = "insufficient"
        /\ NothingChanged

(* C3: after a withdrawal or a transfer no account's balance is negative.  *)
C3_BalanceNonNegative ==
    (last.op \in {"withdraw", "transfer"}) => \A u \in Users : balance[u] >= 0

C5_TransferUnknownRecipient ==
    (last.op = "transfer" /\ last.arg \notin Users) =>
        /\ Amount > 0 => last.result = "no_recipient"
        /\ NothingChanged

C5_Witness ==
    /\ last.op = "transfer"
    /\ last.arg \notin Users
    /\ last.result = "no_recipient"
    /\ BalanceBefore(Sender) >= Amount

(* C6: a transfer of more than the sender's balance is refused as          *)
(* insufficient and changes no balance and no record; a transfer of        *)
(* exactly the sender's balance passes the balance check.                  *)
C6_TransferInsufficient ==
    (last.op = "transfer" /\ last.arg \in Users /\ Amount > 0) =>
        /\ BalanceBefore(Sender) < Amount =>
              last.result = "insufficient" /\ NothingChanged
        /\ BalanceBefore(Sender) = Amount =>
              last.result \in {"ok", "mail_error", "mail_error2"}

C6_Witness ==
    /\ last.op = "transfer"
    /\ last.arg \in Users
    /\ last.result = "insufficient"
    /\ BalanceBefore(Sender) > 0

C6_WitnessExact ==
    /\ last.op = "transfer"
    /\ last.result = "ok"
    /\ BalanceBefore(Sender) = Amount

(* The loan records of an account in a table: all of them, and the         *)
(* approved ones that are still of type LOAN.                              *)
LoanRequestsOf(table, account) ==
    {i \in DOMAIN table :
        /\ table[i].account = account
        /\ table[i].transaction_type \in {LOAN, LOAN_PAID}}

ApprovedLoansOf(table, account) ==
    {i \in DOMAIN table :
        /\ table[i].account = account
        /\ table[i].transaction_type = LOAN
        /\ table[i].loan_approve}

C8_NoPartialMutation ==
    (last.result \notin {"ok", "none"}) => NothingChanged

(* C9: a record keeps its amount and its account; its type changes only    *)
(* from LOAN to LOAN_PAID and only by PayLoan; a record of any type other  *)
(* than LOAN is not modified by any request.                               *)
C9_RecordsImmutable ==
    \A i \in DOMAIN last.txns :
        LET old == last.txns[i]
            new == txns[i]
        IN /\ new.amount = old.amount
           /\ new.account = old.account
           /\ new.transaction_type # old.transaction_type =>
                 /\ old.transaction_type = LOAN
                 /\ new.transaction_type = LOAN_PAID
                 /\ last.op = "payloan"
           /\ old.transaction_type # LOAN => new = old

(* The rest of C9, which the handlers do keep: amount and account never   *)
(* change, and a type changes only from LOAN to LOAN_PAID, by PayLoan.     *)
RecordsKeepIdentity ==
    \A i \in DOMAIN last.txns :
        LET old == last.txns[i]
            new == txns[i]
        IN /\ new.amount = old.amount
           /\ new.account = old.account
           /\ new.transaction_type # old.transaction_type =>
                 /\ old.transaction_type = LOAN
                 /\ new.transaction_type = LOAN_PAID
                 /\ last.op = "payloan"
           /\ old.transaction_type \notin {LOAN, LOAN_PAID} => new = old

LoanBefore == last.txns[last.arg]

(* Every record but the one at loan_id is as it was, and none was added *)
OtherRecordsKept(loan_id) ==
    /\ Len(txns) = Len(last.txns)
    /\ \A i \in DOMAIN txns : i # loan_id => txns[i] = last.txns[i]

(* C13: PayLoan on an approved record whose amount is below the owning     *)
(* account's balance debits that account by exactly the amount, stamps the *)
(* new balance on the record, makes it LOAN_PAID and leaves loan_approve   *)
(* true; with an amount equal to or above the balance it reports           *)
(* insufficient funds and changes nothing; on an unknown id it reports not *)
(* found and changes nothing.                                              *)
C13_PayLoan ==
    last.op = "payloan" =>
        IF last.arg \notin DOMAIN last.txns
        THEN last.result = "not_found" /\ NothingChanged
        ELSE LoanBefore.loan_approve =>
             IF LoanBefore.amount < BalanceBefore(LoanBefore.account)
             THEN /\ last.result = "ok"
                  /\ balance[LoanBefore.account] =
                         BalanceBefore(LoanBefore.account) - LoanBefore.amount
                  /\ OthersUnchanged({LoanBefore.account})
                  /\ txns[last.arg] =
                         [LoanBefore EXCEPT
                             !.balance_after_transaction = balance[LoanBefore.account],
                             !.transaction_type = LOAN_PAID]
                  /\ txns[last.arg].loan_approve
                  /\ OtherRecordsKept(last.arg)
             ELSE last.result = "insufficient" /\ NothingChanged

C13_Witness ==
    /\ last.op = "payloan"
    /\ last.result = "ok"
    /\ LoanBefore.transaction_type = LOAN
    /\ balance[LoanBefore.account] = BalanceBefore(LoanBefore.account) - LoanBefore.amount

C13_WitnessExact ==
    /\ last.op = "payloan"
    /\ last.result = "insufficient"
    /\ LoanBefore.loan_approve
    /\ LoanBefore.amount = BalanceBefore(LoanBefore.account)

C13_WitnessNotFound ==
    /\ last.op = "payloan"
    /\ last.result = "not_found"
    /\ Len(txns) > 0

(* C14: a loan request that creates a record creates one of type LOAN with *)
(* loan_approve false; a record becomes LOAN_PAID only if loan_approve was *)
(* true on it before, and none is created as LOAN_PAID; PayLoan on a       *)
(* record whose loan_approve is false changes no record and no balance.    *)
C14_LoanLifecycle ==
    /\ (last.op = "loan" /\ Created > 0) =>
           /\ Created = 1
           /\ txns[Len(txns)].transaction_type = LOAN
           /\ ~txns[Len(txns)].loan_approve
    /\ \A i \in DOMAIN txns :
           txns[i].transaction_type = LOAN_PAID =>
               /\ txns[i].loan_approve
               /\ i \in DOMAIN last.txns
               /\ last.txns[i].loan_approve
    /\ (last.op = "payloan" /\ last.arg \in DOMAIN last.txns /\ ~LoanBefore.loan_approve) =>
           NothingChanged

C14_Witness ==
    /\ last.op = "payloan"
    /\ last.arg \in DOMAIN last.txns
    /\ ~LoanBefore.loan_approve
    /\ LoanBefore.amount < BalanceBefore(LoanBefore.account)
    /\ last.result = "not_approved"

C14_WitnessPaid ==
    /\ last.op = "payloan"
    /\ last.result = "ok"
    /\ LoanBefore.transaction_type = LOAN
    /\ txns[last.arg].transaction_type = LOAN_PAID

(* C15: PayLoan on a record that is already LOAN_PAID changes no account   *)
(* balance and leaves the record's balance_after_transaction as it was, so *)
(* a loan is debited at most once.                                         *)
C15_PaidTerminal ==
    (/\ last.op = "payloan"
     /\ last.arg \in DOMAIN last.txns
     /\ LoanBefore.transaction_type = LOAN_PAID) =>
        /\ balance = last.balance
        /\ txns[last.arg].balance_after_transaction =
               LoanBefore.balance_after_transaction

RECURSIVE SumOver(_, _)
SumOver(accounts, b) ==
    IF accounts = {} THEN 0
    ELSE LET u == CHOOSE v \in accounts : TRUE
         IN b[u] + SumOver(accounts \ {u}, b)

(* The sum of all account balances in the balance table b *)
TotalBalance(b) == SumOver(Users, b)

(* C16: a transfer that succeeds leaves the sum of all account balances as *)
(* it was, whoever the sender and the recipient are, the sender's own      *)
(* username as recipient included.                                         *)
C16_TransferConserves ==
    (last.op = "transfer" /\ last.result = "ok") =>
        TotalBalance(balance) = TotalBalance(last.balance)

(* C17: a PayLoan request of a user changes no balance but that user's own *)
(* and no record but those of that user's account; naming a loan of        *)
(* another account debits nothing from that account and leaves the record  *)
(* as it was.                                                              *)
C17_PayLoanOwnOnly ==
    last.op = "payloan" =>
        /\ OthersUnchanged({Sender})
        /\ Len(txns) = Len(last.txns)
        /\ \A i \in DOMAIN txns :
               last.txns[i].account # Sender => txns[i] = last.txns[i]

(* C18: a loan request of a positive amount by an account holding 3 or     *)
(* more approved LOAN records is refused with a result the caller          *)
(* receives, not with an exception escaping the handler, and creates no    *)
(* record; with fewer than 3 (and the notification delivered) it creates   *)
(* exactly one LOAN record with loan_approve false and changes no balance. *)
C18_LoanLimitStructured ==
    (last.op = "loan" /\ Amount > 0) =>
        IF Cardinality(ApprovedLoansOf(last.txns, Sender)) >= 3
        THEN /\ last.result \notin {"ok", "name_error"}
             /\ NothingChanged
        ELSE last.result # "mail_error" =>
                 /\ last.result = "ok"
                 /\ Created = 1
                 /\ OldRecordsKept
                 /\ CreatedRecord(1, Sender, LOAN)
                 /\ ~txns[Len(txns)].loan_approve
                 /\ balance = last.balance

(* Both concurrent requests are over and both debited account u, which     *)
(* neither of them credited.                                               *)
BothDebited(u) ==
    \A t \in Threads :
        /\ Thread(t).pc = "done"
        /\ Thread(t).debited
        /\ Thread(t).user = u
        /\ Thread(t).op = "transfer" => User_objects_get(Thread(t).arg) # u

(* The balance of u after the two debits made one after the other *)
SerialBalance(u) == last.balance[u] - Thread(1).amount - Thread(2).amount

(* A request saved over a stored balance that was no longer the one it loaded *)
StaleSave == \E t \in Threads : Thread(t).debited /\ Thread(t).replaced # Thread(t).loaded

(* C12: when two concurrent requests have both debited the same account,   *)
(* the stored balance is the serial result only if neither saved over a    *)
(* balance changed since it loaded it; otherwise the balance holds the     *)
(* debit of one request alone and the other's is lost, which no serial     *)
(* order of the two debits produces.                                       *)
C12_ConcurrentDebits ==
    \A u \in Users :
        BothDebited(u) =>
            IF StaleSave
            THEN /\ balance[u] \in {last.balance[u] - Thread(t).amount : t \in Threads}
                 /\ balance[u] # SerialBalance(u)
            ELSE balance[u] = SerialBalance(u)

(* Two withdrawals, each within the balance it loaded, one of them lost *)
C12_Witness ==
    \E u \in Users :
        /\ BothDebited(u)
        /\ \A t \in Threads :
               /\ Thread(t).op = "withdraw"
               /\ Thread(t).result = "ok"
               /\ Thread(t).amount <= Thread(t).loaded
        /\ balance[u] # SerialBalance(u)

(* A withdrawal racing a transfer that passed its balance check *)
C12_WitnessTransfer ==
    \E u \in Users :
        /\ BothDebited(u)
        /\ Thread(1).op = "withdraw" /\ Thread(1).result = "ok"
        /\ Thread(1).amount <= Thread(1).loaded
        /\ Thread(2).op = "transfer" /\ Thread(2).result = "ok"
        /\ balance[u] # SerialBalance(u)

(* Each debit is computed from the loaded balance, so two requests that    *)
(* each stayed within the balance they loaded leave no negative balance:   *)
(* the overdraw shows as more money paid out than the account held.        *)
C12_PaidOutMoreThanHeld ==
    \E u \in Users :
        /\ BothDebited(u)
        /\ \A t \in Threads : Thread(t).amount <= Thread(t).loaded
        /\ Thread(1).amount + Thread(2).amount > last.balance[u]
        /\ balance[u] >= 0

(* Two requests that each stayed within the balance they loaded never      *)
(* store a negative balance.                                               *)
C12_NoNegativeWithinLoaded ==
    \A u \in Users :
        (BothDebited(u) /\ \A t \in Threads : Thread(t).amount <= Thread(t).loaded) =>
            balance[u] >= 0

(* The records of an account, and those of them dated within [start, end] *)
RecordsOf(account) == {i \in DOMAIN txns : txns[i].account = account}

RecordsWithin(account, start_date, end_date) ==
    {i \in RecordsOf(account) : start_date <= stamps[i] /\ stamps[i] <= end_date}

(* C19: a transaction report changes no balance and no record; asked with  *)
(* a start and an end date it lists exactly the account's records dated    *)
(* from start to end; asked without a range it lists exactly the account's *)
(* records and displays the account's current balance.                     *)
C19_Report ==
    last.op = "report" =>
        /\ NothingChanged
        /\ (report.start_date_str \in Days /\ report.end_date_str \in Days) =>
               /\ last.result = "ok"
               /\ report.object_list =
                      RecordsWithin(Sender, report.start_date_str, report.end_date_str)
        /\ (report.start_date_str = NoDate \/ report.end_date_str = NoDate) =>
               /\ last.result = "ok"
               /\ report.object_list = RecordsOf(Sender)
               /\ report.balance = balance[Sender]

(* What holds of the report: nothing changes, and asked without a range it *)
(* lists the account's records and displays its current balance.           *)
C19_ReportWithoutRange ==
    last.op = "report" =>
        /\ NothingChanged
        /\ (report.start_date_str = NoDate \/ report.end_date_str = NoDate) =>
               /\ last.result = "ok"
               /\ report.object_list = RecordsOf(Sender)
               /\ report.balance = balance[Sender]

C19_WitnessWithoutRange ==
    /\ last.op = "report"
    /\ report.start_date_str = NoDate
    /\ RecordsOf(Sender) # {}
    /\ RecordsOf(Sender) # DOMAIN txns
    /\ last.result = "ok"

====
